---- MODULE Spec2Model ----
(***************************************************************************)
(* A model of awesome_align/run_align.py: the line decoder (process_line), *)
(* the shard planner (find_offsets), the per-worker line iterator          *)
(* (LineByLineTextDataset.__iter__), the write loop of word_align and the  *)
(* ordered multi-stream writer (open_writer_list, merge_files).            *)
(*                                                                         *)
(* Text is modelled at the level of characters and bytes.  A decoded line  *)
(* is a sequence of characters "a" (a letter), "|" (a bar), " " (a space), *)
(* "\n" (the line terminator) and "E" (a non-white-space character whose   *)
(* UTF-8 encoding takes the two bytes "C2" "80").  A file is a sequence of *)
(* bytes; byte position p of the code is index p+1 of the sequence.        *)
(***************************************************************************)
EXTENDS Integers, Sequences, FiniteSets, TLC

\* ------------------------------------------------------------------ bounds
\* the longest input file, in lines
MaxLines == 3
\* the largest --num_workers
MaxWorkers == 3
\* --batch_size of the DataLoader
BatchSize == 2
\* the longest line handed to process_line alone, in chunks of LineChunks
MaxChunks == 5
\* the most subword pieces the tokenizer makes of one character
MaxPieces == 2
\* the largest tokenizer.max_len tried
MaxLenBound == 4

VARIABLES
  \* the tokenizer: pieces[c] subword tokens per character c, and max_len
  pieces, max_len,
  \* process_line on its own: the line, and what process_line returned
  lp_line, lp_result,
  \* args: the bytes of --data_file, --num_workers, and whether
  \* --output_prob_file and --output_word_file are given
  file, num_workers, output_prob, output_word,
  \* word_align: where it is, the offsets of find_offsets (<<>> for None),
  \* the writer lists, one per output kind (<<>> while not opened)
  pc, offsets, writers,
  \* the DataLoader: each worker's iterator over its shard: the position
  \* f.tell() and the phase of the generator ("new", "mid" the loop, "end")
  iter

tokVars  == <<pieces, max_len>>
lineVars == <<lp_line, lp_result>>
argVars  == <<file, num_workers, output_prob, output_word>>
runVars  == <<pc, offsets, writers, iter>>

\* ------------------------------------------------------------ sequences
Min(S) == CHOOSE x \in S : \A y \in S : x <= y

RECURSIVE Concat(_)
\* itertools.chain(*lists), and '+=' over a list of lists
Concat(ss) == IF ss = <<>> THEN <<>> ELSE Head(ss) \o Concat(Tail(ss))

\* ------------------------------------------------------------ str methods
WhiteSpace == {" ", "\n"}

\* str.isspace(): at least one character, and all of them white space
isspace(s) == Len(s) > 0 /\ \A i \in 1..Len(s) : s[i] \in WhiteSpace

\* str.find(sep): the first index at which sep occurs in s, 0 when none does
find(s, sep) ==
  LET hits == {i \in 1..(Len(s) - Len(sep) + 1) : SubSeq(s, i, i + Len(sep) - 1) = sep}
  IN  IF hits = {} THEN 0 ELSE Min(hits)

RECURSIVE split(_, _)
\* str.split(sep): the fields between the non-overlapping occurrences of sep,
\* found left to right
split(s, sep) ==
  LET i == find(s, sep)
  IN  IF i = 0 THEN <<s>>
      ELSE <<SubSeq(s, 1, i - 1)>> \o split(SubSeq(s, i + Len(sep), Len(s)), sep)

RECURSIVE rstrip(_)
rstrip(s) ==
  IF s # <<>> /\ s[Len(s)] \in WhiteSpace THEN rstrip(SubSeq(s, 1, Len(s) - 1)) ELSE s

RECURSIVE lstrip(_)
lstrip(s) == IF s # <<>> /\ Head(s) \in WhiteSpace THEN lstrip(Tail(s)) ELSE s

strip(s) == lstrip(rstrip(s))

RECURSIVE split_ws(_)
\* str.split() without a separator: the maximal runs of non-white-space
split_ws(s) ==
  LET t == lstrip(s)
      ends == {i \in 1..Len(t) : t[i] \in WhiteSpace}
      e == IF ends = {} THEN Len(t) + 1 ELSE Min(ends)
  IN  IF t = <<>> THEN <<>>
      ELSE <<SubSeq(t, 1, e - 1)>> \o split_ws(SubSeq(t, e, Len(t)))

\* ------------------------------------------------------------ the tokenizer
WordChars == {"a", "|", "E"}
cls_token_id == "[CLS]"
sep_token_id == "[SEP]"

\* tokenizer.tokenize(word): the subword tokens of one word, in order
tokenize(word) ==
  Concat([i \in 1..Len(word) |-> [k \in 1..pieces[word[i]] |-> word[i]]])

\* tokenizer.convert_tokens_to_ids(tokens): one id per token
convert_tokens_to_ids(tokens) ==
  [k \in 1..Len(tokens) |->
     CASE tokens[k] = "a" -> "id_a" [] tokens[k] = "|" -> "id_bar" [] OTHER -> "id_E"]

\* tokenizer.prepare_for_model(ids, max_length)['input_ids'][0]: the ids cut to
\* max_length - 2 and framed by the begin and end markers
prepare_for_model(ids, max_length) ==
  LET keep == IF Len(ids) > max_length - 2 THEN max_length - 2 ELSE Len(ids)
  IN  <<cls_token_id>> \o SubSeq(ids, 1, keep) \o <<sep_token_id>>

\* ------------------------------------------------------------ process_line
Separator == <<" ", "|", "|", "|", " ">>
None == [tag |-> "None"]

\* bpe2word_map: word position i repeated once per token of word i
bpe2word_map(token_lists) ==
  Concat([i \in 1..Len(token_lists) |-> [x \in 1..Len(token_lists[i]) |-> i - 1]])

\* process_line without 'if len(ids_src[0]) == 2 or len(ids_tgt[0]) == 2'
process_line_noframe(worker_id, line) ==
  LET fields == split(line, Separator)
  IN  IF Len(line) = 0 \/ isspace(line) \/ ~(Len(fields) = 2) THEN None
      ELSE IF rstrip(fields[1]) = <<>> \/ rstrip(fields[2]) = <<>> THEN None
      ELSE [tag |-> "Record", worker_id |-> worker_id,
            sent_src |-> split_ws(strip(fields[1])),
            sent_tgt |-> split_ws(strip(fields[2]))]

process_line(worker_id, line) ==
  LET fields == split(line, Separator)
      src == fields[1]
      tgt == fields[2]
  IN
  IF Len(line) = 0 \/ isspace(line) \/ ~(Len(fields) = 2) THEN None
  ELSE  IF rstrip(src) = <<>> \/ rstrip(tgt) = <<>> THEN None
        ELSE
          LET sent_src == split_ws(strip(src))
              sent_tgt == split_ws(strip(tgt))
              token_src == [i \in 1..Len(sent_src) |-> tokenize(sent_src[i])]
              token_tgt == [i \in 1..Len(sent_tgt) |-> tokenize(sent_tgt[i])]
              wid_src == [i \in 1..Len(token_src) |-> convert_tokens_to_ids(token_src[i])]
              wid_tgt == [i \in 1..Len(token_tgt) |-> convert_tokens_to_ids(token_tgt[i])]
              ids_src == prepare_for_model(Concat(wid_src), max_len)
              ids_tgt == prepare_for_model(Concat(wid_tgt), max_len)
          IN  IF Len(ids_src) = 2 \/ Len(ids_tgt) = 2 THEN None
              ELSE [tag |-> "Record", worker_id |-> worker_id,
                    ids_src |-> ids_src, ids_tgt |-> ids_tgt,
                    bpe2word_map_src |-> bpe2word_map(token_src),
                    bpe2word_map_tgt |-> bpe2word_map(token_tgt),
                    sent_src |-> sent_src, sent_tgt |-> sent_tgt]

\* ------------------------------------------------------------ the file
\* the bytes of one character in UTF-8
encode_char(c) == IF c = "E" THEN <<"C2", "80">> ELSE <<c>>

\* str.encode('utf-8')
encode(chars) == Concat([i \in 1..Len(chars) |-> encode_char(chars[i])])

\* a byte that continues a multi-byte character
IsContinuation(b) == b = "80"

\* bytes.decode('utf-8') of bytes that begin at a character boundary
decode(bytes) ==
  LET lead == SelectSeq(bytes, LAMBDA b : ~IsContinuation(b))
  IN  [i \in 1..Len(lead) |-> IF lead[i] = "C2" THEN "E" ELSE lead[i]]

\* the position f.tell() after f.readline() from byte position pos: just
\* after the next line terminator, or the end of the file
tell_after_readline(pos) ==
  LET nl == {i \in (pos + 1)..Len(file) : file[i] = "\n"}
  IN  IF nl = {} THEN Len(file) ELSE Min(nl)

\* the bytes f.readline() consumes from byte position pos
readline(pos) == SubSeq(file, pos + 1, tell_after_readline(pos))

\* f.readline() raises UnicodeDecodeError: the text layer starts decoding
\* at pos, inside a character
raises_UnicodeDecodeError(pos) == pos < Len(file) /\ IsContinuation(file[pos + 1])

\* ------------------------------------------------------------ find_offsets
RECURSIVE seek_retry(_)
\* the loop 'while True: try readline / except: pos -= 1; f.seek(pos)':
\* the position the readline that succeeds starts from
seek_retry(pos) == IF raises_UnicodeDecodeError(pos) THEN seek_retry(pos - 1) ELSE pos

\* offsets.append(pos) in place of offsets.append(f.tell())
offset_of_seek(chunk_size, i) == seek_retry(chunk_size * i)

\* one pass of 'for i in range(1, num_workers)': the offset appended
offset_of(chunk_size, i) == tell_after_readline(seek_retry(chunk_size * i))

find_offsets(n) ==
  IF n <= 1 THEN <<>>
  ELSE LET size == Len(file)
           chunk_size == size \div n
       IN  <<0>> \o [i \in 1..(n - 1) |-> offset_of(chunk_size, i)]

\* ------------------------------------------------------------ __iter__
\* the worker ids of a run: DataLoader starts num_workers workers, and with
\* num_workers = 0 the main process iterates as worker 0
WorkerIds == 0..((IF num_workers > 1 THEN num_workers ELSE 1) - 1)

offset_start(offs, w) == IF offs # <<>> THEN offs[w + 1] ELSE 0
has_offset_end(offs, w) == offs # <<>> /\ w + 1 < Len(offs)
offset_end(offs, w) == offs[w + 2]

\* the record yielded for a malformed line
sentinel(worker_id) ==
  [tag |-> "Record", worker_id |-> worker_id,
   ids_src |-> <<cls_token_id, "999", sep_token_id>>,
   ids_tgt |-> <<cls_token_id, "999", sep_token_id>>,
   bpe2word_map_src |-> <<-1>>, bpe2word_map_tgt |-> <<-1>>,
   sent_src |-> <<>>, sent_tgt |-> <<>>]

\* what the loop body yields for one line; 'at' is not in the code: it
\* records the byte position the line was read from
yield_line(worker_id, at, line) ==
  LET processed == process_line(worker_id, line)
  IN  [example |-> IF processed.tag = "None" THEN sentinel(worker_id) ELSE processed,
       at |-> at]

RECURSIVE fetch(_, _, _)
\* the next n items of worker w's generator from state st (fewer when it
\* ends): [batch, st]
fetch(w, st, n) ==
  IF n = 0 \/ st.phase = "end" THEN [batch |-> <<>>, st |-> st]
  ELSE
    LET break == st.phase = "mid" /\ has_offset_end(offsets, w)
                   /\ st.pos >= offset_end(offsets, w)
        bytes == readline(st.pos)
    IN  IF break \/ bytes = <<>>
        THEN [batch |-> <<>>, st |-> [st EXCEPT !.phase = "end"]]
        ELSE LET rest == fetch(w, [pos |-> st.pos + Len(bytes), phase |-> "mid"], n - 1)
             IN  [batch |-> <<yield_line(w, st.pos, decode(bytes))>> \o rest.batch,
                  st |-> rest.st]

\* ------------------------------------------------------------ the writers
Kinds == {"align", "prob", "word"}
enabled(kind) ==
  \/ kind = "align"
  \/ kind = "prob" /\ output_prob
  \/ kind = "word" /\ output_word

\* one stream: what was written to it, and whether it is closed
open_stream == [content |-> <<>>, closed |-> FALSE]

open_writer_list(n) == [i \in 1..(IF n > 1 THEN n ELSE 1) |-> open_stream]

RECURSIVE copy_and_close(_, _)
\* the loop of merge_files from list index i on: stream i is copied onto
\* the end of stream 0 and closed
copy_and_close(ws, i) ==
  IF i > Len(ws) THEN ws
  ELSE copy_and_close(
         [ws EXCEPT ![1].content = @ \o ws[i].content, ![i].closed = TRUE], i + 1)

\* writer.seek(0) left out: copyfileobj starts at the end of each stream
merge_files_noseek(ws) == [i \in 1..Len(ws) |-> [ws[i] EXCEPT !.closed = TRUE]]

merge_files(ws) ==
  IF Len(ws) = 1 THEN [ws EXCEPT ![1].closed = TRUE]
  ELSE [copy_and_close(ws, 2) EXCEPT ![1].closed = TRUE]

\* ------------------------------------------------------------ the write loop
RECURSIVE SortedSeq(_)
\* the pairs of a set in index order
SortedSeq(S) ==
  IF S = {} THEN <<>>
  ELSE LET m == CHOOSE p \in S : \A q \in S :
                  p[1] < q[1] \/ (p[1] = q[1] /\ p[2] <= q[2])
       IN  <<m>> \o SortedSeq(S \ {m})

Range(f) == {f[i] : i \in DOMAIN f}

\* what model.get_aligned_word may return for one example: any set of word
\* pairs its two subword-to-word maps name, each with its score
ExampleAligns(ex) ==
  {LET pairs == SortedSeq(S)
   IN  [k \in 1..Len(pairs) |->
          [pair |-> pairs[k],
           prob |-> "p" \o ToString(pairs[k][1]) \o "_" \o ToString(pairs[k][2])]]
     : S \in SUBSET (Range(ex.bpe2word_map_src) \X Range(ex.bpe2word_map_tgt))}

RECURSIVE get_aligned_word(_)
\* the lists word_aligns_list a successful call may return for a batch
get_aligned_word(batch) ==
  IF batch = <<>> THEN {<<>>}
  ELSE {<<a>> \o r : a \in ExampleAligns(Head(batch).example),
                     r \in get_aligned_word(Tail(batch))}

\* the guard 'if word_align[0] != -1' left out
kept_all(word_aligns) == word_aligns

\* the pairs the loop over word_aligns appends for
kept(word_aligns) == SelectSeq(word_aligns, LAMBDA e : e.pair[1] # -1)

\* output_str after the loop: f'{word_align[0]}-{word_align[1]}' per pair
output_str(word_aligns) ==
  LET ks == kept(word_aligns)
  IN  [k \in 1..Len(ks) |-> <<ToString(ks[k].pair[1]) \o "-" \o ToString(ks[k].pair[2])>>]

\* the append to output_prob_str moved out of 'if word_align[0] != -1'
output_prob_str_all(word_aligns) ==
  [k \in 1..Len(word_aligns) |-> <<word_aligns[k].prob>>]

\* output_prob_str after the loop: f'{word_aligns[word_align]}' per pair
output_prob_str(word_aligns) ==
  LET ks == kept(word_aligns)
  IN  [k \in 1..Len(ks) |-> <<ks[k].prob>>]

\* output_word_str after the loop:
\* f'{sent_src[word_align[0]]}<sep>{sent_tgt[word_align[1]]}' per pair
output_word_str(word_aligns, ex) ==
  LET ks == kept(word_aligns)
  IN  [k \in 1..Len(ks) |->
         ex.sent_src[ks[k].pair[1] + 1] \o <<"<sep>">> \o ex.sent_tgt[ks[k].pair[2] + 1]]

RECURSIVE join(_)
\* ' '.join(entries)
join(entries) ==
  IF entries = <<>> THEN <<>>
  ELSE IF Len(entries) = 1 THEN entries[1]
  ELSE entries[1] \o <<" ">> \o join(Tail(entries))

\* every record written to stream 0, whichever worker decoded its line
write_first(ws, w, at, text) ==
  [ws EXCEPT ![1].content = Append(@, [at |-> at, text |-> text])]

\* f.write(text) on stream w of a writer list
write(ws, w, at, text) ==
  [ws EXCEPT ![w + 1].content = Append(@, [at |-> at, text |-> text])]

\* the three writes of one example
write_example(wrs, item, word_aligns) ==
  LET w == item.example.worker_id
  IN  [kind \in Kinds |->
        IF ~enabled(kind) THEN wrs[kind]
        ELSE write(wrs[kind], w, item.at,
               join(CASE kind = "align" -> output_str(word_aligns)
                      [] kind = "prob" -> output_prob_str(word_aligns)
                      [] kind = "word" -> output_word_str(word_aligns, item.example))
                 \o <<"\n">>)]

RECURSIVE write_batch(_, _, _)
\* the loop 'for worker_id, word_aligns, sent_src, sent_tgt in zip(...)'
write_batch(wrs, batch, word_aligns_list) ==
  IF batch = <<>> THEN wrs
  ELSE write_batch(write_example(wrs, Head(batch), Head(word_aligns_list)),
                   Tail(batch), Tail(word_aligns_list))

\* ------------------------------------------------------------ word_align
\* the lines input files are made of: a sentence pair of two source words
\* and one target word, and a line without the separator that holds one
\* two-byte character
GoodLine   == <<"a", " ", "|", " ", "|", "|", "|", " ", "a">>
BadLine    == <<"E">>
InputLines == {GoodLine, BadLine}

RECURSIVE LineSeqs(_)
LineSeqs(n) ==
  IF n = 0 THEN {<<>>}
  ELSE LET shorter == LineSeqs(n - 1)
       IN  shorter \cup {Append(ls, l) : ls \in shorter, l \in InputLines}

\* the bytes of a file of these lines; the last line may lack its terminator
file_of(ls, terminated) ==
  LET all == Concat([i \in 1..Len(ls) |-> encode(ls[i] \o <<"\n">>)])
  IN  IF terminated \/ all = <<>> THEN all ELSE SubSeq(all, 1, Len(all) - 1)

Files == {file_of(ls, t) : ls \in LineSeqs(MaxLines), t \in BOOLEAN}

Idle == [tag |-> "Idle"]

Init ==
  /\ pieces = [c \in WordChars |-> 1]
  /\ max_len = MaxLenBound
  /\ lp_line = <<>>
  /\ lp_result = Idle
  /\ file \in Files
  /\ num_workers \in 0..MaxWorkers
  /\ output_prob \in BOOLEAN
  /\ output_word \in BOOLEAN
  /\ pc = "start"
  /\ offsets = <<>>
  /\ writers = [kind \in Kinds |-> <<>>]
  /\ iter = <<>>

\* word_align up to its loop: find_offsets, the DataLoader, the writer lists
Open ==
  /\ pc = "start"
  /\ pc' = "loop"
  /\ offsets' = find_offsets(num_workers)
  /\ writers' = [kind \in Kinds |->
                   IF enabled(kind) THEN open_writer_list(num_workers) ELSE <<>>]
  /\ iter' = [w \in WorkerIds |-> [pos |-> offset_start(offsets', w), phase |-> "new"]]
  /\ UNCHANGED <<tokVars, lineVars, argVars>>

\* the batch the DataLoader hands the loop next from worker w: up to
\* batch_size items of the worker's generator, and the generator afterwards.
\* A worker reads ahead of the loop, but shares no state with it: its
\* reading is modelled at the moment the loop takes the batch.
next_batch(w) == fetch(w, iter[w], BatchSize)

\* one pass of 'for batch in dataloader' on the next batch of worker w
AlignBatch(w) ==
  /\ pc = "loop"
  /\ iter[w].phase # "end"
  /\ LET next == next_batch(w)
     IN  /\ next.batch # <<>>
         /\ \E word_aligns_list \in get_aligned_word(next.batch) :
              writers' = write_batch(writers, next.batch, word_aligns_list)
         /\ iter' = [iter EXCEPT ![w] = next.st]
  /\ UNCHANGED <<tokVars, lineVars, argVars, pc, offsets>>

\* model.get_aligned_word raises on the next batch of worker w: word_align
\* is left by the exception
EncoderFails(w) ==
  /\ pc = "loop"
  /\ iter[w].phase # "end"
  /\ LET next == next_batch(w)
     IN  /\ next.batch # <<>>
         /\ iter' = [iter EXCEPT ![w] = next.st]
  /\ pc' = "failed"
  /\ UNCHANGED <<tokVars, lineVars, argVars, offsets, writers>>

\* worker w has no item left: its generator returns
WorkerEnds(w) ==
  /\ pc = "loop"
  /\ iter[w].phase # "end"
  /\ LET next == next_batch(w)
     IN  /\ next.batch = <<>>
         /\ iter' = [iter EXCEPT ![w] = next.st]
  /\ UNCHANGED <<tokVars, lineVars, argVars, pc, offsets, writers>>

\* the loop left as soon as one worker's generator has ended
LoopDone_any == \E w \in WorkerIds : iter[w].phase = "end"

\* the DataLoader is exhausted: every worker's generator has ended
LoopDone == \A w \in WorkerIds : iter[w].phase = "end"

\* merge_files(writers)
MergeAlign ==
  /\ pc = "loop"
  /\ LoopDone
  /\ pc' = "merge_prob"
  /\ writers' = [writers EXCEPT !.align = merge_files(@)]
  /\ UNCHANGED <<tokVars, lineVars, argVars, offsets, iter>>

\* if args.output_prob_file is not None: merge_files(prob_writers)
MergeProb ==
  /\ pc = "merge_prob"
  /\ pc' = "merge_word"
  /\ writers' = IF output_prob THEN [writers EXCEPT !.prob = merge_files(@)] ELSE writers
  /\ UNCHANGED <<tokVars, lineVars, argVars, offsets, iter>>

\* if args.output_word_file is not None: merge_files(word_writers)
MergeWord ==
  /\ pc = "merge_word"
  /\ pc' = "done"
  /\ writers' = IF output_word THEN [writers EXCEPT !.word = merge_files(@)] ELSE writers
  /\ UNCHANGED <<tokVars, lineVars, argVars, offsets, iter>>

\* ------------------------------------------- process_line on a line alone
\* the pieces lines are put together from
LineChunks == {<<"a">>, <<" ">>, <<"|">>, Separator}

RECURSIVE ChunkLines(_)
\* every line of at most n chunks
ChunkLines(n) ==
  IF n = 0 THEN {<<>>}
  ELSE LET shorter == ChunkLines(n - 1)
       IN  shorter \cup {l \o c : l \in shorter, c \in LineChunks}

\* a line as readline returns it: with its terminator, or the last line of a
\* file that does not end in one
LinesRead == {l \o t : l \in ChunkLines(MaxChunks), t \in {<<>>, <<"\n">>}}

Pending == [tag |-> "Pending"]

InitLine ==
  /\ pieces \in {[c \in WordChars |-> IF c = "a" THEN n ELSE IF c = "|" THEN 1 ELSE 0]
                   : n \in 0..MaxPieces}
  /\ max_len \in 2..MaxLenBound
  /\ lp_line \in LinesRead
  /\ lp_result = Pending
  /\ file = <<>>
  /\ num_workers = 0
  /\ output_prob = FALSE
  /\ output_word = FALSE
  /\ pc = "idle"
  /\ offsets = <<>>
  /\ writers = [kind \in Kinds |-> <<>>]
  /\ iter = <<>>

\* the call self.process_line(worker_id, line) of __iter__
DecodeLine ==
  /\ lp_result = Pending
  /\ lp_result' = process_line(0, lp_line)
  /\ UNCHANGED <<pieces, max_len, lp_line, argVars, runVars>>

vars == <<tokVars, lineVars, argVars, runVars>>

Next ==
  \/ Open
  \/ \E w \in DOMAIN iter : AlignBatch(w)
  \/ \E w \in DOMAIN iter : EncoderFails(w)
  \/ \E w \in DOMAIN iter : WorkerEnds(w)
  \/ MergeAlign
  \/ MergeProb
  \/ MergeWord

Spec == Init /\ [][Next]_vars

NextLine == DecodeLine
SpecLine == InitLine /\ [][NextLine]_vars

\* ================================================================ claims
\* ---------------------------------------------- what the input file holds
\* the byte positions at which the lines of the input file start
InputLineStarts == {p \in 0..(Len(file) - 1) : p = 0 \/ file[p] = "\n"}

\* the line of the input file that starts at byte position p, decoded
InputLineAt(p) ==
  LET nl == {i \in (p + 1)..Len(file) : file[i] = "\n"}
  IN  decode(SubSeq(file, p + 1, IF nl = {} THEN Len(file) ELSE Min(nl)))

RECURSIVE Ascending(_)
\* a set of numbers as an increasing sequence
Ascending(S) == IF S = {} THEN <<>> ELSE <<Min(S)>> \o Ascending(S \ {Min(S)})

\* the number of line terminators written to a stream
NewlinesIn(content) ==
  Len(Concat([i \in 1..Len(content) |->
                SelectSeq(content[i].text, LAMBDA c : c = "\n")]))

\* the byte positions the records of a stream were read from, in order
Origins(content) == [i \in 1..Len(content) |-> content[i].at]

\* the output file of a kind: the file behind stream 0 of its writer list
OutputFile(kind) == writers[kind][1].content

\* C1: when word_align has completed, every enabled output file has exactly
\* as many lines as the input file
C1_LineCountPreserved ==
  pc = "done" =>
    \A kind \in Kinds :
      enabled(kind) => NewlinesIn(OutputFile(kind)) = Cardinality(InputLineStarts)

\* C2: when word_align has completed, line k of every enabled output file is
\* the record of input line k, whatever the worker count
C2_OrderPreserved ==
  pc = "done" =>
    \A kind \in Kinds :
      enabled(kind) => Origins(OutputFile(kind)) = Ascending(InputLineStarts)

\* the space-separated entries of a written line
EntriesOf(text) ==
  LET line == SubSeq(text, 1, Len(text) - 1)
  IN  IF line = <<>> THEN <<>> ELSE split(line, <<" ">>)

\* the sentinel record of the code, written out
SentinelRecord(w) ==
  [tag |-> "Record", worker_id |-> w,
   ids_src |-> <<"[CLS]", "999", "[SEP]">>, ids_tgt |-> <<"[CLS]", "999", "[SEP]">>,
   bpe2word_map_src |-> <<-1>>, bpe2word_map_tgt |-> <<-1>>,
   sent_src |-> <<>>, sent_tgt |-> <<>>]

\* C3: a worker yields the sentinel record for a malformed line and goes on
\* with the next line of its shard: the records in each worker's stream are
\* those of consecutive lines from the start of its shard, each one line, the
\* line of a malformed input line is empty in every enabled stream, and with
\* a single shard the completed output file has its lines at the positions
\* of the input lines
C3_SentinelKeepsPositions ==
  /\ pc = "loop" =>
       \A w \in WorkerIds :
         iter[w].phase # "end" =>
           \A n \in 1..Len(next_batch(w).batch) :
             LET item == next_batch(w).batch[n]
             IN  process_line(w, InputLineAt(item.at)) = None =>
                   item.example = SentinelRecord(w)
  /\ pc = "loop" =>
       \A kind \in Kinds : \A w \in WorkerIds :
         enabled(kind) =>
           LET c == writers[kind][w + 1].content
           IN  \A j \in 1..Len(c) :
                 /\ c[j].at = IF j = 1 THEN offset_start(offsets, w)
                              ELSE c[j - 1].at + Len(encode(InputLineAt(c[j - 1].at)))
                 /\ c[j].at \in InputLineStarts
                 /\ NewlinesIn(<<c[j]>>) = 1
                 /\ process_line(w, InputLineAt(c[j].at)) = None => c[j].text = <<"\n">>
  /\ (pc = "done" /\ num_workers <= 1) =>
       \A kind \in Kinds :
         enabled(kind) => Origins(OutputFile(kind)) = Ascending(InputLineStarts)

\* C3 witness: with all three kinds enabled, a worker wrote the empty line of
\* a malformed line and then the non-empty record of the next line
C3_Witness ==
  /\ pc = "loop" /\ output_prob /\ output_word
  /\ \E w \in WorkerIds : \E j \in 1..(Len(writers["word"][w + 1].content) - 1) :
       LET c == writers["word"][w + 1].content
       IN  /\ process_line(w, InputLineAt(c[j].at)) = None
           /\ c[j].text = <<"\n">>
           /\ c[j + 1].text # <<"\n">>

\* C4: the offsets of find_offsets start at 0 and are strictly increasing
C4_OffsetsStrictlyIncreasing ==
  (pc # "start" /\ num_workers >= 2) =>
    /\ offsets[1] = 0
    /\ \A i \in 1..Len(offsets) : \A j \in 1..Len(offsets) :
         i < j => offsets[i] < offsets[j]

\* C5: every offset of find_offsets but the first is the position just after
\* a line terminator, or the end of the file: never inside a line or inside
\* a multi-byte character
C5_OffsetsAtLineStarts ==
  (pc # "start" /\ num_workers >= 2) =>
    /\ Len(offsets) = num_workers
    /\ \A i \in 2..Len(offsets) :
         \/ offsets[i] = Len(file)
         \/ offsets[i] \in 1..Len(file) /\ file[offsets[i]] = "\n"

\* C5 witness: a naive offset size // num_workers * i fell inside a two-byte
\* character, and the seek was retried
C5_Witness ==
  /\ pc # "start" /\ num_workers >= 2
  /\ \E i \in 1..(num_workers - 1) :
       LET naive == (Len(file) \div num_workers) * i
       IN  /\ naive < Len(file)
           /\ file[naive + 1] = "80"
           /\ file[naive] = "C2"

\* the writer list a step of word_align hands to merge_files, <<>> when the
\* step is no call of merge_files
MergedBy(from, to) ==
  IF from = "loop" /\ to = "merge_prob" THEN "align"
  ELSE IF from = "merge_prob" /\ to = "merge_word" /\ output_prob THEN "prob"
  ELSE IF from = "merge_word" /\ to = "done" /\ output_word THEN "word"
  ELSE "none"

\* C6: a call of merge_files leaves in stream 0 the contents of streams
\* 0..N-1 as they were before the call, one after the other in worker order,
\* and closes all N streams; with one stream the content does not change
C6_MergeConcatenates ==
  [][\A kind \in Kinds :
       MergedBy(pc, pc') = kind =>
         LET before == writers[kind]
             after == writers'[kind]
         IN  /\ Len(after) = Len(before)
             /\ after[1].content =
                  Concat([i \in 1..Len(before) |-> before[i].content])
             /\ \A i \in 1..Len(after) : after[i].closed
             /\ Len(before) = 1 => after[1].content = before[1].content]_vars

\* C6 witness: a merge of at least two streams, two of them not empty
C6_Witness ==
  /\ pc = "merge_prob" /\ Len(writers["align"]) >= 2
  /\ writers["align"][2].content # <<>>
  /\ Len(writers["align"][1].content) > Len(writers["align"][2].content)
  /\ output_prob /\ output_word
  /\ \A i \in 1..Len(writers["align"]) : writers["align"][i].closed

\* the words of one side (1: source, 2: target) of the input line at p
InputWords(p, side) == split_ws(split(InputLineAt(p), Separator)[side])

\* C7: while the loop of word_align runs, the enabled streams of a worker
\* hold the same number of lines, from the same input lines, and on each
\* line the probability line and the word-pair line have one entry per i-j
\* pair of the alignment line, the j-th entry of each made from the same
\* word pair; no pair has index -1
C7_Lockstep ==
  pc = "loop" =>
    \A w \in WorkerIds :
      LET a == writers["align"][w + 1].content
      IN  /\ \A kind \in Kinds :
               enabled(kind) => Origins(writers[kind][w + 1].content) = Origins(a)
          /\ \A n \in 1..Len(a) : \A j \in 1..Len(EntriesOf(a[n].text)) :
               \E u \in 0..(Len(InputWords(a[n].at, 1)) - 1) :
               \E v \in 0..(Len(InputWords(a[n].at, 2)) - 1) :
                 /\ EntriesOf(a[n].text)[j] = <<ToString(u) \o "-" \o ToString(v)>>
                 /\ output_prob =>
                      LET q == EntriesOf(writers["prob"][w + 1].content[n].text)
                      IN  /\ Len(q) = Len(EntriesOf(a[n].text))
                          /\ q[j] = <<"p" \o ToString(u) \o "_" \o ToString(v)>>
                 /\ output_word =>
                      LET q == EntriesOf(writers["word"][w + 1].content[n].text)
                      IN  /\ Len(q) = Len(EntriesOf(a[n].text))
                          /\ q[j] = InputWords(a[n].at, 1)[u + 1] \o <<"<sep>">>
                                      \o InputWords(a[n].at, 2)[v + 1]
          /\ \A n \in 1..Len(a) :
               EntriesOf(a[n].text) = <<>> =>
                 \A kind \in Kinds :
                   enabled(kind) => writers[kind][w + 1].content[n].text = <<"\n">>

\* C7 witness: all kinds enabled, and a worker wrote a line of two pairs
\* after the empty line of a sentinel
C7_Witness ==
  /\ pc = "loop" /\ output_prob /\ output_word
  /\ \E w \in WorkerIds :
       LET a == writers["align"][w + 1].content
       IN  /\ Len(a) >= 2
           /\ EntriesOf(a[1].text) = <<>>
           /\ Len(EntriesOf(a[2].text)) = 2
           /\ Len(EntriesOf(writers["prob"][w + 1].content[2].text)) = 2
           /\ Len(EntriesOf(writers["word"][w + 1].content[2].text)) = 2

\* the number of subword ids the tokenizer makes of a field
PiecesIn(field) ==
  Len(Concat([i \in 1..Len(field) |->
                IF field[i] \in WhiteSpace THEN <<>>
                ELSE [k \in 1..pieces[field[i]] |-> field[i]]]))

\* a line is malformed: empty or white space only, or not two fields, or a
\* field with nothing but white space, or a side with no subword id left
\* between the framing markers
Malformed(line) ==
  \/ line = <<>>
  \/ \A i \in 1..Len(line) : line[i] \in WhiteSpace
  \/ Len(split(line, Separator)) # 2
  \/ \E side \in 1..2 : \A i \in 1..Len(split(line, Separator)[side]) :
       split(line, Separator)[side][i] \in WhiteSpace
  \/ \E side \in 1..2 :
       PiecesIn(split(line, Separator)[side]) = 0 \/ max_len - 2 = 0

\* C8: process_line returns None exactly for the malformed lines, and for
\* every other line a record whose two word sequences are not empty
C8_MalformedIffNone ==
  lp_result \notin {Pending, Idle} =>
    /\ (lp_result = None) <=> Malformed(lp_line)
    /\ lp_result # None =>
         /\ lp_result.tag = "Record"
         /\ Len(lp_result.sent_src) > 0
         /\ Len(lp_result.sent_tgt) > 0

\* C8 witness: a line of two fields with words on both sides for which
\* process_line returned None, a side having only the two markers
C8_Witness ==
  /\ lp_result = None
  /\ Len(split(lp_line, Separator)) = 2
  /\ \A side \in 1..2 : split_ws(split(lp_line, Separator)[side]) # <<>>

\* C9: when the run has ended, normally or by a failure of the encoder,
\* every stream opened by open_writer_list is closed
C9_AllClosedAtEnd ==
  pc \in {"done", "failed"} =>
    \A kind \in Kinds : \A i \in 1..Len(writers[kind]) : writers[kind][i].closed

\* C10: merge_files is called only when every worker's generator has ended
\* with the records of its shard written; before that no stream is closed
\* and stream 0 grows only by the records of a batch of worker 0; and once
\* the encoder has failed no stream is closed, so merge_files never ran
C10_MergeAfterJoin ==
  /\ [][MergedBy(pc, pc') # "none" =>
          \A w \in WorkerIds :
            /\ iter[w].phase = "end"
            /\ offset_start(offsets, w) < Len(file) =>
                 writers["align"][w + 1].content # <<>>]_vars
  /\ [][(pc = "loop" /\ \E w \in WorkerIds : iter[w].phase # "end") =>
          \A kind \in Kinds : \A i \in 1..Len(writers[kind]) :
            /\ writers'[kind][i].closed = writers[kind][i].closed
            /\ (i = 1 /\ writers'[kind][1].content # writers[kind][1].content) =>
                 LET old == writers[kind][1].content
                     new == writers'[kind][1].content
                 IN  /\ Len(new) > Len(old)
                     /\ Len(new) <= Len(old) + BatchSize
                     /\ SubSeq(new, 1, Len(old)) = old
                     /\ \A n \in (Len(old) + 1)..Len(new) :
                          new[n].at >= iter[0].pos /\ new[n].at < iter'[0].pos]_vars
  /\ [](pc = "failed" =>
          \A kind \in Kinds : \A i \in 1..Len(writers[kind]) : ~writers[kind][i].closed)

\* C10 witness: the first merge has run after two workers wrote records
C10_Witness ==
  /\ pc = "merge_prob" /\ num_workers >= 2
  /\ Cardinality({w \in WorkerIds : iter[w].pos > offset_start(offsets, w)}) >= 2

\* ------------------------------------------------- the streams of a worker
\* the byte positions of the lines worker w's generator reads, in the order
\* it reads them: a function of the file and the offsets alone
ShardOrigins(w) ==
  LET all == fetch(w, [pos |-> offset_start(offsets, w), phase |-> "new"],
                   Len(file) + 1).batch
  IN  [n \in 1..Len(all) |-> all[n].at]

\* the lines of worker w's shard that the loop has taken so far
TakenOrigins(w) == SelectSeq(ShardOrigins(w), LAMBDA p : p < iter[w].pos)

\* C11: whatever the order in which the batches of the workers reach the
\* write loop, every record carries the id of the worker that read its line
\* and that id is an index of the writer lists; the stream of each worker
\* holds exactly the records of the lines that worker has handed over, in
\* the order it read them, and nothing of another worker; and the completed
\* file is the streams' full shards in worker order, which does not depend
\* on the interleaving
C11_StreamsPerWorker ==
  /\ pc = "loop" =>
       \A w \in WorkerIds :
         /\ iter[w].phase # "end" =>
              \A n \in 1..Len(next_batch(w).batch) :
                LET id == next_batch(w).batch[n].example.worker_id
                IN  /\ id = w
                    /\ \A kind \in Kinds :
                         enabled(kind) => id + 1 \in DOMAIN writers[kind]
         /\ \A kind \in Kinds :
              enabled(kind) =>
                Origins(writers[kind][w + 1].content) = TakenOrigins(w)
  /\ pc = "done" =>
       \A kind \in Kinds :
         enabled(kind) =>
           Origins(OutputFile(kind)) =
             Concat([i \in 1..Cardinality(WorkerIds) |-> ShardOrigins(i - 1)])

\* C11 witness: a batch of worker 1 reached the write loop before any batch
\* of worker 0, whose shard has lines; the record is in stream 1 alone
C11_Witness ==
  /\ pc = "loop" /\ num_workers >= 2
  /\ writers["align"][1].content = <<>>
  /\ writers["align"][2].content # <<>>
  /\ iter[0].phase = "new"
  /\ next_batch(0).batch # <<>>

\* ------------------------------------------------------ the word indices
\* C12: for both sides of a record that process_line returns, the word
\* index has one entry per subword id between the two framing markers, also
\* when the ids were cut to the maximum length; its entries do not decrease,
\* and entry i is the position of the word that made subword i
C12_MapMatchesIds ==
  (lp_result \notin {Pending, Idle} /\ lp_result # None) =>
    \A side \in 1..2 :
      LET map == IF side = 1 THEN lp_result.bpe2word_map_src
                 ELSE lp_result.bpe2word_map_tgt
          ids == IF side = 1 THEN lp_result.ids_src ELSE lp_result.ids_tgt
          sent == IF side = 1 THEN lp_result.sent_src ELSE lp_result.sent_tgt
      IN  /\ Len(map) = Len(ids) - 2
          /\ \A i \in 1..(Len(map) - 1) : map[i] <= map[i + 1]
          /\ map = bpe2word_map([k \in 1..Len(sent) |-> tokenize(sent[k])])
====
